---- MODULE Spec2Model ----
(***************************************************************************)
(* Video export of the radio drama studio: generateVideoFromScript         *)
(* (src/utils/videoUtils.ts) as a state machine driven by browser events   *)
(* (image load, AudioBufferSourceNode.onended, timers, MediaRecorder       *)
(* events), with its caller handleExportVideo.                             *)
(*                                                                         *)
(* Time is in milliseconds.  A URL is a sequence of tokens: <<>> is the    *)
(* empty string / undefined, a URL that starts with the token "data:" is   *)
(* a data URL, anything else is raw base64.                                *)
(***************************************************************************)
EXTENDS Integers, Sequences, FiniteSets, TLC

\* ------------------------------------------------------------- bounds
MaxCues == 3
MaxCast == 2
MaxFaults == 1
LateMs == 400
LoadMs == 30

\* --------------------------------------------------- program constants
PauseMs == 200
SlackMs == 100
SilenceMs == 2000

\* ------------------------------------------------------------ helpers
NoUrl == <<>>
Black == <<"#000000">>
NoBlob == [none |-> TRUE]

Truthy(u) == u # NoUrl

startsWithData(u) == Len(u) > 0 /\ u[1] = "data:"

\* imgSrc = `data:image/png;base64,${imgSrc}` unless it is a data URL already
AddPrefix(u) == IF startsWithData(u) THEN u ELSE <<"data:", "image/png;base64,">> \o u

RECURSIVE FindIdx(_, _, _)
\* Array.prototype.find on the predicate c.name === name: the index of the
\* first entry with that name, 0 when there is none.
FindIdx(arr, name, k) ==
    IF k > Len(arr) THEN 0
    ELSE IF arr[k].name = name THEN k
    ELSE FindIdx(arr, name, k + 1)

Find(arr, name) == FindIdx(arr, name, 1)

\* The image source of one cue, as the loop body computes it by successive
\* assignments to imgSrc (steps A of the playback loop), before the prefix.
ImgAfterOwn(item) == IF Truthy(item.imageUrl) THEN item.imageUrl ELSE NoUrl

ImgAfterPortraitOverride(src, item, cast) ==
    IF Truthy(item.character)
    THEN LET c == Find(cast, item.character)
         IN IF c # 0 /\ Truthy(cast[c].imageUrl) THEN cast[c].imageUrl ELSE src
    ELSE src

ImgAfterPortrait(src, item, cast) ==
    IF ~Truthy(src) /\ Truthy(item.character)
    THEN LET c == Find(cast, item.character)
         IN IF c # 0 /\ Truthy(cast[c].imageUrl) THEN cast[c].imageUrl ELSE src
    ELSE src

ImgAfterScene(src, item, scenes) ==
    IF ~Truthy(src) /\ Truthy(item.location)
    THEN LET c == Find(scenes, item.location)
         IN IF c # 0 /\ Truthy(scenes[c].imageUrl) THEN scenes[c].imageUrl ELSE src
    ELSE src

ImgNormalize(src) == IF Truthy(src) THEN AddPrefix(src) ELSE src

selectFrame(item, cast, scenes) ==
    ImgNormalize(ImgAfterScene(ImgAfterPortrait(ImgAfterOwn(item), item, cast),
                               item, scenes))


\* ------------------------------------------------------------ inputs
\* cast and scenes of the exported project
Cast == << [name |-> <<"Ann">>, imageUrl |-> <<"data:", "annPng">>],
           [name |-> <<"Bob">>, imageUrl |-> NoUrl] >>

Scenes == << [name |-> <<"Hall">>, imageUrl |-> <<"hallRaw">>] >>

\* The cues a timeline is made of; audio is the buffer's duration in ms, 0
\* when the cue has no audioBuffer.
CueOwn == [imageUrl |-> <<"ownRaw">>, character |-> <<"Ann">>, location |-> <<"Hall">>, audio |-> 1000]
CuePortrait == [imageUrl |-> NoUrl, character |-> <<"Ann">>, location |-> NoUrl, audio |-> 0]
CueVoice == [imageUrl |-> NoUrl, character |-> <<"Bob">>, location |-> NoUrl, audio |-> 500]
CueKinds == {CueOwn, CuePortrait, CueVoice}

Timelines == UNION { [1..n -> CueKinds] : n \in 0..MaxCues }

Sessions == {1, 2}

\* every image source a cue of CueKinds can resolve to
Sources == { selectFrame(c, Cast, Scenes) : c \in CueKinds } \ {NoUrl}

VARIABLES
    items,            \* the timeline passed to generateVideoFromScript
    broken,           \* the image sources that fail to decode (img.onerror)
    nsess,            \* how many export sessions the user starts
    faults,           \* whether the environment may depart from the ideal run
    now,              \* wall clock, ms
    sess,             \* per session: the locals of one generateVideoFromScript call
    lastLoadedImage,  \* the cell of the variable lastLoadedImage, per call
    cancelAt,         \* per session: the cue in progress when cancellation was requested, -1 if never
    sel,              \* frame selection on its own: inputs and result
    aud               \* audio on its own: merge, WAV and MP3 encoding, publish pipeline, player

vars == <<items, broken, nsess, faults, now, sess, lastLoadedImage, cancelAt, sel, aud>>

\* What the environment decides when the code arms an event source.
Choices == [ thr : BOOLEAN,                       \* the loop body throws (onProgress, createBufferSource)
             img : {"now", "slow", "never"},      \* delivery of the image's load/error event
             ended : {"exact", "late", "never"},  \* delivery of source.onended
             stopEv : BOOLEAN,                    \* the recorder's stop event is delivered
             stopThrows : BOOLEAN ]               \* stop() on an inactive recorder throws (older builds) or returns

Idle == [ pc |-> "idle", i |-> 0, surface |-> Black, recState |-> "none",
          chunks |-> <<>>, tasks |-> {}, log |-> <<>>, result |-> NoBlob,
          download |-> NoBlob, alerted |-> FALSE, startAt |-> 0, stopAt |-> 0,
          exact |-> TRUE, lost |-> {}, sinkFailed |-> FALSE, onstop |-> FALSE,
          threw |-> FALSE, stale |-> 0, loadWait |-> 0, waitFrom |-> 0, dev |-> 0 ]

Task(kind, cue, at) == [kind |-> kind, cue |-> cue, at |-> at]

\* the cell in which a call keeps its lastLoadedImage: a local of the call
LastImgCellShared(s) == 1

LastImgCell(s) == s

\* drawImageProp: black fill, then the image scaled to cover the canvas
drawImageProp(surface, img) == img

\* the two places that keep the previous frame: the catch of a failed load
\* and the else branch of a cue without image
HoldFrameBlank(r, last) == [r EXCEPT !.surface = Black]

HoldFrame(r, last) ==
    IF last # NoUrl THEN [r EXCEPT !.surface = drawImageProp(@, last)] ELSE r

\* i++ of the playback loop
NextIndexSkip(k) == k + 2

NextIndex(k) == k + 1

\* new Blob(chunks)
MakeBlob(chunks) == [parts |-> chunks]

\* the promise returned to handleExportVideo resolves: the blob is downloaded
Resolve(r, blob) == [r EXCEPT !.pc = "Done", !.result = blob, !.download = blob]

\* the promise rejects: handleExportVideo alerts
Reject(r) == [r EXCEPT !.pc = "Failed", !.alerted = TRUE]

\* recorder.ondataavailable
OnDataAvailable(r, chunk) ==
    IF chunk.to - chunk.from > 0
    THEN [r EXCEPT !.chunks = Append(@, chunk)]
    ELSE r

\* after the finally block: the loop's error is rethrown, or the function
\* returns the promise whose executor sets recorder.onstop
AfterFinallySwallow(r, err) == [r EXCEPT !.pc = "awaitStop", !.onstop = TRUE]

AfterFinally(r, err) ==
    IF err THEN Reject(r) ELSE [r EXCEPT !.pc = "awaitStop", !.onstop = TRUE]

\* finally { recorder.stop(); audioCtx.close(); } and what follows it
Finish(r, err, ch) ==
    IF r.recState = "recording"
    THEN AfterFinally([r EXCEPT !.recState = "inactive", !.stopAt = now,
                                !.tasks = IF ch.stopEv THEN @ \cup {Task("recstop", r.i, now)} ELSE @,
                                !.lost = IF ch.stopEv \/ err THEN @ ELSE @ \cup {"stop"}],
                      err)
    ELSE IF ch.stopThrows THEN Reject(r)
    ELSE AfterFinally([r EXCEPT !.lost = IF err THEN @ ELSE @ \cup {"stop"}], err)

\* setTimeout(resolve, duration * 1000 + 100) of the audio wait
NoFallbackTimer(k, dur) == {}

FallbackTimer(k, dur) == {Task("timeout", k, now + dur + SlackMs)}

\* setTimeout(r, 2000) of a cue without audio
SilenceTimerShort(k) == {Task("silence", k, now + PauseMs)}

SilenceTimer(k) == {Task("silence", k, now + SilenceMs)}

\* source.onended = () => resolve(), as the environment delivers it
EndedEvent(k, dur, how) ==
    CASE how = "exact" -> {Task("ended", k, now + dur)}
      [] how = "late" -> {Task("ended", k, now + dur + SlackMs + LateMs)}
      [] OTHER -> {}

\* Step B of the loop body: start the cue's audio and wait, or hold 2 s.
PlayAudio(r, ch) ==
    LET item == items[r.i + 1]
    IN IF item.audio > 0
       THEN [r EXCEPT !.pc = "awaitAudio",
                      !.log = Append(@, [ev |-> "audio", cue |-> r.i, at |-> now, img |-> r.surface]),
                      !.exact = @ /\ ch.ended = "exact",
                      !.lost = IF ch.ended = "never" THEN @ \cup {"ended"} ELSE @,
                      !.tasks = @ \cup FallbackTimer(r.i, item.audio)
                                  \cup EndedEvent(r.i, item.audio, ch.ended)]
       ELSE [r EXCEPT !.pc = "awaitSilence", !.tasks = @ \cup SilenceTimer(r.i)]

Frame(r) == [ev |-> "frame", cue |-> r.i, at |-> now, img |-> r.surface]

\* loadImage(imgSrc), as the environment answers it
ImageTask(k, how) ==
    CASE how = "now" -> {Task("img", k, now)}
      [] how = "slow" -> {Task("img", k, now + LoadMs)}
      [] OTHER -> {}

\* The loop from its test i < items.length to the first await of iteration k.
EnterCue(r0, k, last, ch) ==
    LET r == [r0 EXCEPT !.i = k]
    IN IF k >= Len(items) THEN Finish(r, FALSE, ch)
       ELSE IF ch.thr THEN Finish([r EXCEPT !.threw = TRUE], TRUE, ch)
       ELSE LET src == selectFrame(items[k + 1], Cast, Scenes)
            IN IF Truthy(src)
               THEN [r EXCEPT !.pc = "awaitImage",
                              !.tasks = @ \cup ImageTask(k, ch.img),
                              !.waitFrom = now,
                              !.lost = IF ch.img = "never" THEN @ \cup {"img"} ELSE @]
               ELSE LET r1 == HoldFrame(r, last)
                    IN PlayAudio([r1 EXCEPT !.log = Append(@, Frame(r1))], ch)

\* how many of the environment's decisions depart from the ideal run (every
\* event delivered at once and on time, nothing thrown)
Dev(ch) ==
    (IF ch.thr THEN 1 ELSE 0) + (IF ch.img # "now" THEN 1 ELSE 0)
    + (IF ch.ended # "exact" THEN 1 ELSE 0) + (IF ch.stopEv THEN 0 ELSE 1)

Charge(r, ch) == [r EXCEPT !.dev = @ + Dev(ch)]

\* The choices that matter when the loop is entered at iteration k (the
\* others are fixed, so that one outcome is one successor), within the
\* budget of departures of one run.
LoopChoices(r, k) ==
    { ch \in Choices :
        LET inLoop == k < Len(items)
            fin == ~inLoop \/ ch.thr
            src == IF inLoop THEN selectFrame(items[k + 1], Cast, Scenes) ELSE NoUrl
        IN /\ (~inLoop => ~ch.thr)
           /\ (~(~fin /\ Truthy(src)) => ch.img = "now")
           /\ (~(~fin /\ ~Truthy(src) /\ items[k + 1].audio > 0) => ch.ended = "exact")
           /\ (~(fin /\ r.recState = "recording") => ch.stopEv)
           /\ (~(fin /\ r.recState # "recording") => ~ch.stopThrows)
           /\ (~faults => Dev(ch) = 0)
           /\ r.dev + Dev(ch) <= MaxFaults }

\* The choices that matter when cue k's audio is started after its image event.
AudioChoices(r, k) ==
    { ch \in Choices :
        /\ ~ch.thr /\ ch.img = "now" /\ ch.stopEv /\ ~ch.stopThrows
        /\ (items[k + 1].audio = 0 => ch.ended = "exact")
        /\ (~faults => Dev(ch) = 0)
        /\ r.dev + Dev(ch) <= MaxFaults }

\* ------------------------------------------------------------ actions
SelOff == [st |-> "off"]

AudOff == [st |-> "off"]

Init ==
    /\ items \in Timelines
    /\ broken \in { b \in SUBSET Sources : Cardinality(b) <= MaxFaults }
    /\ nsess = 1
    /\ faults = TRUE
    /\ now = 0
    /\ sess = [s \in Sessions |-> Idle]
    /\ lastLoadedImage = [s \in Sessions |-> NoUrl]
    /\ cancelAt = [s \in Sessions |-> -1]
    /\ sel = SelOff
    /\ aud = AudOff

\* handleExportVideo calls generateVideoFromScript: the setup, then the loop
Start(s) ==
    /\ s <= nsess
    /\ sess[s].pc = "idle"
    /\ LET r == [sess[s] EXCEPT !.surface = Black, !.recState = "recording",
                                 !.startAt = now, !.stopAt = now,
                                 !.dev = Cardinality(broken)]
       IN \E ch \in LoopChoices(r, 0) :
            sess' = [sess EXCEPT ![s] = EnterCue(Charge(r, ch), 0, NoUrl, ch)]
    /\ lastLoadedImage' = [lastLoadedImage EXCEPT ![LastImgCell(s)] = NoUrl]
    /\ UNCHANGED <<items, broken, nsess, faults, now, cancelAt, sel, aud>>

\* getContext('2d') returns null or new MediaRecorder throws: the call rejects
SetupFail(s) ==
    /\ s <= nsess
    /\ faults
    /\ sess[s].pc = "idle"
    /\ sess' = [sess EXCEPT ![s] = Reject(@)]
    /\ UNCHANGED <<items, broken, nsess, faults, now, lastLoadedImage, cancelAt, sel, aud>>

Due(s, kind) == { t \in sess[s].tasks : t.kind = kind /\ t.at <= now }

\* img.onload / img.onerror of loadImage, and the rest of the iteration
ImageEvent(s) ==
    \E t \in Due(s, "img") : \E ch \in AudioChoices(sess[s], t.cue) :
      LET r == Charge([sess[s] EXCEPT !.tasks = @ \ {t},
                                      !.loadWait = @ + (now - sess[s].waitFrom)], ch)
          src == selectFrame(items[t.cue + 1], Cast, Scenes)
          cell == LastImgCell(s)
          r1 == IF src \notin broken
                THEN [r EXCEPT !.surface = drawImageProp(@, src)]
                ELSE HoldFrame(r, lastLoadedImage[cell])
      IN /\ r.pc = "awaitImage" /\ r.i = t.cue
         /\ lastLoadedImage' = IF src \notin broken
                               THEN [lastLoadedImage EXCEPT ![cell] = src]
                               ELSE lastLoadedImage
         /\ sess' = [sess EXCEPT ![s] = PlayAudio([r1 EXCEPT !.log = Append(@, Frame(r1))], ch)]
         /\ UNCHANGED <<items, broken, nsess, faults, now, cancelAt, sel, aud>>

\* setTimeout(r, 200) after the audio wait
PauseTimerNone(k) == {}

PauseTimer(k) == {Task("pause", k, now + PauseMs)}

\* resolve() of the promise of cue t.cue's audio wait, called by source.onended
\* or by the fallback timer: settles the promise if it is pending, else nothing.
ResolveWaitAny(r, t) ==
    [r EXCEPT !.pc = "awaitPause",
              !.log = Append(@, [ev |-> "resolved", cue |-> t.cue, at |-> now, img |-> <<t.kind>>]),
              !.tasks = @ \cup PauseTimer(t.cue)]

ResolveWait(r, t) ==
    IF r.pc = "awaitAudio" /\ r.i = t.cue
    THEN [r EXCEPT !.pc = "awaitPause",
                   !.log = Append(@, [ev |-> "resolved", cue |-> t.cue, at |-> now, img |-> <<t.kind>>]),
                   !.tasks = @ \cup PauseTimer(t.cue)]
    ELSE [r EXCEPT !.stale = @ + 1]

AudioEnded(s) ==
    /\ \E t \in Due(s, "ended") :
         sess' = [sess EXCEPT ![s] = ResolveWait([@ EXCEPT !.tasks = @ \ {t}], t)]
    /\ UNCHANGED <<items, broken, nsess, faults, now, lastLoadedImage, cancelAt, sel, aud>>

AudioTimeout(s) ==
    /\ \E t \in Due(s, "timeout") :
         sess' = [sess EXCEPT ![s] = ResolveWait([@ EXCEPT !.tasks = @ \ {t}], t)]
    /\ UNCHANGED <<items, broken, nsess, faults, now, lastLoadedImage, cancelAt, sel, aud>>

\* the 200 ms timer after a cue's audio; the loop goes on with i + 1
PauseDone(s) ==
    /\ \E t \in Due(s, "pause") : \E ch \in LoopChoices(sess[s], NextIndex(t.cue)) :
         sess' = [sess EXCEPT ![s] =
                    EnterCue(Charge([@ EXCEPT !.tasks = @ \ {t}], ch), NextIndex(t.cue),
                             lastLoadedImage[LastImgCell(s)], ch)]
    /\ UNCHANGED <<items, broken, nsess, faults, now, lastLoadedImage, cancelAt, sel, aud>>

\* the 2000 ms timer of a cue without audio; the loop goes on with i + 1
SilenceDone(s) ==
    /\ \E t \in Due(s, "silence") : \E ch \in LoopChoices(sess[s], NextIndex(t.cue)) :
         sess' = [sess EXCEPT ![s] =
                    EnterCue(Charge([@ EXCEPT !.tasks = @ \ {t},
                                               !.log = Append(@, [ev |-> "resolved", cue |-> t.cue,
                                                                  at |-> now, img |-> <<t.kind>>])], ch),
                             NextIndex(t.cue), lastLoadedImage[LastImgCell(s)], ch)]
    /\ UNCHANGED <<items, broken, nsess, faults, now, lastLoadedImage, cancelAt, sel, aud>>

\* The task recorder.stop() queued: dataavailable with the recording, then stop.
RecorderStopped(s) ==
    /\ \E t \in Due(s, "recstop") :
         LET r == [sess[s] EXCEPT !.tasks = @ \ {t}]
             r1 == OnDataAvailable(r, [from |-> r.startAt, to |-> r.stopAt, cues |-> t.cue])
         IN sess' = [sess EXCEPT ![s] =
                       IF r1.onstop /\ r1.pc = "awaitStop"
                       THEN Resolve(r1, MakeBlob(r1.chunks))
                       ELSE r1]
    /\ UNCHANGED <<items, broken, nsess, faults, now, lastLoadedImage, cancelAt, sel, aud>>

\* The recorder errors or its tracks end: it goes inactive by itself and fires
\* dataavailable and stop; generateVideoFromScript has set no onstop and no
\* onerror handler while the loop runs.
RecorderFail(s) ==
    /\ faults
    /\ sess[s].recState = "recording"
    /\ sess[s].dev < MaxFaults
    /\ \A t \in sess[s].tasks : t.at > now
    /\ LET r == sess[s]
       IN sess' = [sess EXCEPT ![s] =
                     OnDataAvailable([r EXCEPT !.recState = "inactive", !.stopAt = now,
                                               !.sinkFailed = TRUE, !.dev = @ + 1],
                                     [from |-> r.startAt, to |-> now, cues |-> r.i])]
    /\ UNCHANGED <<items, broken, nsess, faults, now, lastLoadedImage, cancelAt, sel, aud>>

\* An external request to cancel the export, made while a cue is in progress;
\* generateVideoFromScript takes no abort signal and reads no flag.
RequestCancel(s) ==
    /\ sess[s].pc \in {"awaitImage", "awaitAudio", "awaitPause", "awaitSilence"}
    /\ cancelAt[s] = -1
    /\ cancelAt' = [cancelAt EXCEPT ![s] = sess[s].i]
    /\ UNCHANGED <<items, broken, nsess, faults, now, sess, lastLoadedImage, sel, aud>>

AllTasks == UNION { sess[s].tasks : s \in Sessions }

\* Time passes to the next deadline once everything due has run.
Tick ==
    /\ AllTasks # {}
    /\ \A t \in AllTasks : t.at > now
    /\ now' = CHOOSE d \in { t.at : t \in AllTasks } : \A t \in AllTasks : d <= t.at
    /\ UNCHANGED <<items, broken, nsess, faults, sess, lastLoadedImage, cancelAt, sel, aud>>

Next ==
    \/ \E s \in Sessions : Start(s)
    \/ \E s \in Sessions : SetupFail(s)
    \/ \E s \in Sessions : ImageEvent(s)
    \/ \E s \in Sessions : AudioEnded(s)
    \/ \E s \in Sessions : AudioTimeout(s)
    \/ \E s \in Sessions : PauseDone(s)
    \/ \E s \in Sessions : SilenceDone(s)
    \/ \E s \in Sessions : RecorderStopped(s)
    \/ \E s \in Sessions : RecorderFail(s)
    \/ Tick

\* one export session, in an environment that may lose events
Spec == Init /\ [][Next]_vars

\* the export with a user who may ask for cancellation
NextCancel ==
    \/ Next
    \/ \E s \in Sessions : RequestCancel(s)

SpecCancel == Init /\ [][NextCancel]_vars

\* ------------------------------------------------------------- claims
Log(s) == sess[s].log

Frames(s) == SelectSeq(Log(s), LAMBDA e : e.ev = "frame")

HasAudio(k) == items[k + 1].audio > 0

\* C1: cues are processed strictly in timeline order: the k-th frame step is
\* that of cue k, it comes first or right after the wait of cue k-1 has
\* resolved, a cue's audio starts right after its own frame step, and a wait
\* resolves right after the step it waits for; no cue is skipped, repeated or
\* reordered, and a finished export has run every cue.
C1_TimelineOrder ==
    \A s \in Sessions :
      LET log == Log(s)
      IN /\ \A p \in 1..Len(log) :
              LET e == log[p]
                  before == SelectSeq(SubSeq(log, 1, p - 1), LAMBDA x : x.ev = e.ev)
              IN /\ e.ev \in {"frame", "resolved"} => e.cue = Len(before)
                 /\ e.cue < Len(items)
                 /\ e.ev = "frame" =>
                      IF p = 1 THEN e.cue = 0
                      ELSE log[p - 1].ev = "resolved" /\ log[p - 1].cue = e.cue - 1
                 /\ e.ev = "audio" =>
                      /\ HasAudio(e.cue)
                      /\ p > 1 /\ log[p - 1].ev = "frame" /\ log[p - 1].cue = e.cue
                 /\ e.ev = "resolved" =>
                      /\ p > 1 /\ log[p - 1].cue = e.cue
                      /\ log[p - 1].ev = IF HasAudio(e.cue) THEN "audio" ELSE "frame"
         /\ sess[s].pc = "Done" => Len(Frames(s)) = Len(items)

C1_Witness ==
    \E s \in Sessions :
      /\ sess[s].pc = "Done"
      /\ Len(Frames(s)) = 2
      /\ \E p \in 1..Len(Log(s)) : Log(s)[p].ev = "resolved" /\ Log(s)[p].img = <<"timeout">>

\* the deadline of the fallback timer of the wait that Log(s)[p] resolved
AudioStart(s, k) ==
    LET a == SelectSeq(Log(s), LAMBDA e : e.ev = "audio" /\ e.cue = k)
    IN a[1].at

\* C2: the audio wait of a cue resolves exactly once, at the first of
\* {onended, timer}: by onended at start + duration, or by the timer at
\* start + duration + 100 ms; while the wait is pending its timer is armed
\* and not overdue, so a lost onended cannot block it; and a resolution that
\* comes after the wait has resolved changes nothing.
C2_WaitRace ==
    \A s \in Sessions :
      /\ \A p \in 1..Len(Log(s)) :
           LET e == Log(s)[p]
           IN e.ev = "resolved" /\ e.img # <<"silence">> =>
                /\ p > 1 /\ Log(s)[p - 1].ev = "audio" /\ Log(s)[p - 1].cue = e.cue
                /\ e.img = <<"ended">> => e.at = Log(s)[p - 1].at + items[e.cue + 1].audio
                /\ e.img = <<"timeout">> =>
                     e.at = Log(s)[p - 1].at + items[e.cue + 1].audio + SlackMs
      /\ sess[s].pc = "awaitAudio" =>
           LET k == sess[s].i
               deadline == AudioStart(s, k) + items[k + 1].audio + SlackMs
           IN /\ Task("timeout", k, deadline) \in sess[s].tasks
              /\ now <= deadline

\* cue 0 was resolved by its timer, and its late onended has fired during the
\* audio wait of cue 1, which is still pending
C2_Witness ==
    \E s \in Sessions :
      /\ sess[s].stale > 0
      /\ "ended" \notin sess[s].lost
      /\ sess[s].pc = "awaitAudio" /\ sess[s].i = 1
      /\ \A t \in sess[s].tasks : t.cue = 1
      /\ \E p \in 1..Len(Log(s)) :
           Log(s)[p].ev = "resolved" /\ Log(s)[p].cue = 0 /\ Log(s)[p].img = <<"timeout">>

Settled(s) == sess[s].pc \in {"Done", "Failed"}

\* a timer or a delivered event of the session is pending, or some step of
\* the system can still be taken
Waiting(s) == sess[s].tasks # {} \/ ENABLED Next

C4_AllOrNothing ==
    \A s \in Sessions :
      /\ sess[s].download # NoBlob =>
           /\ sess[s].pc = "Done"
           /\ sess[s].download = sess[s].result
           /\ ~sess[s].threw /\ ~sess[s].alerted
           /\ Len(Frames(s)) = Len(items)
           /\ \A c \in 1..Len(sess[s].download.parts) :
                sess[s].download.parts[c].cues = Len(items)
      /\ sess[s].threw \/ sess[s].pc = "Failed" => sess[s].download = NoBlob

C4_Witness ==
    \E s \in Sessions :
      /\ sess[s].download # NoBlob
      /\ Len(sess[s].download.parts) = 1
      /\ Len(items) = 3

\* C5 as claimed: once the capture sink has failed, the session does not
\* resolve with a recording and does not come to rest unsettled: it ends
\* Failed.
C5_SinkFailureFails ==
    \A s \in Sessions :
      sess[s].sinkFailed => sess[s].pc # "Done" /\ (Settled(s) \/ Waiting(s))

RECURSIVE LastGood(_)
\* the image most recently loaded successfully for a cue j <= k, Black when
\* there is none
LastGood(k) ==
    IF k < 0 THEN Black
    ELSE LET src == selectFrame(items[k + 1], Cast, Scenes)
         IN IF Truthy(src) /\ src \notin broken THEN src ELSE LastGood(k - 1)

\* C6: frame hold: the surface of cue i's frame step, and the surface until
\* the next frame step, is the image most recently loaded successfully for a
\* cue j <= i; when cue i resolves no image or its image fails to load, it is
\* the surface of cue i-1; it is black only while no image has loaded.
C6_FrameHold ==
    \A s \in Sessions :
      LET fr == Frames(s)
      IN /\ \A p \in 1..Len(fr) :
              LET src == selectFrame(items[fr[p].cue + 1], Cast, Scenes)
              IN /\ fr[p].img = LastGood(fr[p].cue)
                 /\ (~Truthy(src) \/ src \in broken) /\ p > 1 => fr[p].img = fr[p - 1].img
         /\ Len(fr) > 0 /\ sess[s].pc # "awaitImage" => sess[s].surface = fr[Len(fr)].img
         /\ Len(fr) > 0 /\ sess[s].pc = "awaitImage" => sess[s].surface = LastGood(sess[s].i - 1)

\* cues 0 and 1 loaded two different images and cue 2, which has none, shows
\* the second
C6_Witness ==
    \E s \in Sessions :
      /\ Len(Frames(s)) = 3
      /\ ~Truthy(selectFrame(items[3], Cast, Scenes))
      /\ Frames(s)[1].img # Black
      /\ Frames(s)[2].img \notin {Black, Frames(s)[1].img}
      /\ Frames(s)[3].img = Frames(s)[2].img

RECURSIVE SumOver(_, _)
SumOver(f(_), k) == IF k = 0 THEN 0 ELSE f(k) + SumOver(f, k - 1)

\* cue.duration: the buffer's duration, or the default silence of 2000 ms
CueDuration(k) == IF items[k].audio > 0 THEN items[k].audio ELSE SilenceMs

PauseAfter(k) == IF items[k].audio > 0 THEN PauseMs ELSE 0

\* the recording is complete: stop() was called after the whole loop, with
\* every onended delivered exactly at the end of its buffer
Recorded(s) ==
    /\ sess[s].pc \in {"awaitStop", "Done"}
    /\ ~sess[s].sinkFailed
    /\ sess[s].exact

\* C8 as claimed: the recorded duration is the sum of the cues' durations.
C8_DurationIsSum ==
    \A s \in Sessions :
      Recorded(s) =>
        sess[s].stopAt - sess[s].startAt = SumOver(CueDuration, Len(items)) + sess[s].loadWait

\* C8: the recorded duration is the sum of the cues' durations, plus the
\* 200 ms pause that follows every cue with audio (the last one included),
\* plus the time spent waiting for images to load.
C8_DurationIsSumPlusPauses ==
    \A s \in Sessions :
      Recorded(s) =>
        sess[s].stopAt - sess[s].startAt =
          SumOver(CueDuration, Len(items)) + SumOver(PauseAfter, Len(items)) + sess[s].loadWait

\* 1.0 s of audio, no audio, 0.5 s of audio
C8_Witness ==
    \E s \in Sessions :
      /\ Recorded(s)
      /\ items = <<CueOwn, CuePortrait, CueVoice>>
      /\ sess[s].stopAt - sess[s].startAt = 3900

\* ---------------------------------------------- frame selection alone
SelNames == {<<"Ann">>, <<"Bob">>}

SelItems ==
    [ imageUrl : {NoUrl, <<"ownRaw">>, <<"data:", "own">>},
      character : {NoUrl, <<"Ann">>, <<"Bob">>, <<"Zed">>},
      location : {NoUrl, <<"Hall">>, <<"Moor">>},
      audio : {0} ]

CastMembers == [ name : SelNames, imageUrl : {NoUrl, <<"portraitRaw">>} ]
                  \cup { [name |-> <<"Ann">>, imageUrl |-> <<"data:", "ann">>] }

SceneDefs == { [name |-> <<"Hall">>, imageUrl |-> NoUrl],
               [name |-> <<"Hall">>, imageUrl |-> <<"hallRaw">>],
               [name |-> <<"Moor">>, imageUrl |-> <<"data:", "moor">>] }

\* Entries are looked up and their images are set by name, so entries of one
\* name carry one image.
ByName(arr) ==
    \A a, b \in DOMAIN arr : arr[a].name = arr[b].name => arr[a].imageUrl = arr[b].imageUrl

Registries(members) ==
    { arr \in UNION { [1..n -> members] : n \in 0..MaxCast } : ByName(arr) }

InitSelect ==
    /\ items = <<>>
    /\ broken = {}
    /\ nsess = 0
    /\ faults = FALSE
    /\ now = 0
    /\ sess = [s \in Sessions |-> Idle]
    /\ lastLoadedImage = [s \in Sessions |-> NoUrl]
    /\ cancelAt = [s \in Sessions |-> -1]
    /\ sel \in [ st : {"in"}, item : SelItems, cast : Registries(CastMembers),
                 scenes : Registries(SceneDefs), out : {NoUrl} ]
    /\ aud = AudOff

\* step A of the loop body for one cue
ApplySelect ==
    /\ sel.st = "in"
    /\ sel' = [sel EXCEPT !.st = "done", !.out = selectFrame(sel.item, sel.cast, sel.scenes)]
    /\ UNCHANGED <<items, broken, nsess, faults, now, sess, lastLoadedImage, cancelAt, aud>>

SpecSelect == InitSelect /\ [][ApplySelect]_vars

\* the image of the entry of a registry that a name refers to, NoUrl when the
\* name is empty, names no entry, or the entry has no image
ImageOf(arr, name) ==
    LET imgs == { arr[k].imageUrl : k \in { j \in DOMAIN arr : arr[j].name = name } }
    IN IF Truthy(name) /\ imgs # {} THEN CHOOSE u \in imgs : TRUE ELSE NoUrl

\* first match wins over <<own image, portrait, scene image>>
FirstMatch(cands) ==
    LET hits == { k \in DOMAIN cands : Truthy(cands[k]) }
    IN IF hits = {} THEN NoUrl
       ELSE cands[CHOOSE k \in hits : \A j \in hits : k <= j]

C9_CancelStopsRender ==
    \A s \in Sessions :
      cancelAt[s] >= 0 =>
        /\ \A p \in 1..Len(Frames(s)) : Frames(s)[p].cue <= cancelAt[s]
        /\ cancelAt[s] + 1 < Len(items) => sess[s].download = NoBlob

\* ------------------------------------------------- two export sessions
Init2 ==
    /\ items \in [1..MaxCues -> CueKinds]
    /\ broken \in { b \in SUBSET Sources : Cardinality(b) <= MaxFaults }
    /\ nsess = 2
    /\ faults = FALSE
    /\ now = 0
    /\ sess = [s \in Sessions |-> Idle]
    /\ lastLoadedImage = [s \in Sessions |-> NoUrl]
    /\ cancelAt = [s \in Sessions |-> -1]
    /\ sel = SelOff
    /\ aud = AudOff

Next2 ==
    \/ \E s \in Sessions : Start(s)
    \/ \E s \in Sessions : ImageEvent(s)
    \/ \E s \in Sessions : AudioEnded(s)
    \/ \E s \in Sessions : AudioTimeout(s)
    \/ \E s \in Sessions : PauseDone(s)
    \/ \E s \in Sessions : SilenceDone(s)
    \/ \E s \in Sessions : RecorderStopped(s)
    \/ Tick

\* two exports of one timeline, started at any two moments
Spec2 == Init2 /\ [][Next2]_vars

RECURSIVE Solo(_)
\* the frames drawn and the cues played by a session that runs alone, up to
\* cue k
Solo(k) ==
    IF k = 0 THEN <<>>
    ELSE Solo(k - 1)
         \o <<[ev |-> "frame", cue |-> k - 1, img |-> LastGood(k - 1)]>>
         \o (IF items[k].audio > 0
             THEN <<[ev |-> "audio", cue |-> k - 1, img |-> LastGood(k - 1)]>>
             ELSE <<>>)

Shown(s) == SelectSeq(Log(s), LAMBDA e : e.ev \in {"frame", "audio"})

\* C10: whatever the interleaving of two sessions over one timeline, each
\* draws the frames and plays the cues of a session that runs alone, in the
\* same order, and collects only the chunk of its own recording.
C10_SessionsIndependent ==
    LET solo == Solo(Len(items))
    IN \A s \in Sessions :
         LET shown == Shown(s)
         IN /\ Len(shown) <= Len(solo)
            /\ \A p \in 1..Len(shown) :
                 /\ shown[p].ev = solo[p].ev
                 /\ shown[p].cue = solo[p].cue
                 /\ shown[p].img = solo[p].img
            /\ sess[s].pc = "Done" => Len(shown) = Len(solo)
            /\ Len(sess[s].chunks) <= 1
            /\ \A c \in 1..Len(sess[s].chunks) :
                 /\ sess[s].chunks[c].from = sess[s].startAt
                 /\ sess[s].chunks[c].to = sess[s].stopAt

\* both sessions are done, the second started while the first was rendering
C10_Witness ==
    /\ sess[1].pc = "Done" /\ sess[2].pc = "Done"
    /\ sess[1].startAt < sess[2].startAt /\ sess[2].startAt < sess[1].stopAt
    /\ Len(items) = 3
    /\ ~Truthy(selectFrame(items[3], Cast, Scenes))

\* ------------------------------------------- audio export: numbers
\* A JavaScript number (IEEE 754 double) is kept exactly, as a fixed-point
\* numeral of NLimbs digits in base LimbBase, least significant first, the
\* first FracLimbs of them after the binary point; every value of the audio
\* export fits, with the 53 bits of its significand.
LimbBase == 1024
LimbBits == 10
NLimbs == 10
FracLimbs == 7
Significand == 53

\* the numeral with the digits of the function f
Numeral(f) == f \o <<>>

\* the integer n as a numeral
BigOfInt(n) ==
    Numeral([i \in 1..NLimbs |->
               IF i <= FracLimbs THEN 0 ELSE (n \div LimbBase^(i - FracLimbs - 1)) % LimbBase])

IntPart(x) ==
    x[FracLimbs + 1] + LimbBase * x[FracLimbs + 2] + LimbBase * LimbBase * x[FracLimbs + 3]

HasFrac(x) == \E i \in 1..FracLimbs : x[i] # 0

RECURSIVE AddCarry(_, _, _)
AddCarry(x, y, i) ==
    IF i = 1 THEN 0 ELSE (x[i - 1] + y[i - 1] + AddCarry(x, y, i - 1)) \div LimbBase

BigAdd(x, y) == Numeral([i \in 1..NLimbs |-> (x[i] + y[i] + AddCarry(x, y, i)) % LimbBase])

RECURSIVE MulCarry(_, _, _)
MulCarry(x, m, i) ==
    IF i = 1 THEN 0 ELSE (x[i - 1] * m + MulCarry(x, m, i - 1)) \div LimbBase

BigMulSmall(x, m) == Numeral([i \in 1..NLimbs |-> (x[i] * m + MulCarry(x, m, i)) % LimbBase])

RECURSIVE DivRem(_, _, _)
\* the remainder carried into digit i by the long division of x by r
DivRem(x, r, i) ==
    IF i = NLimbs THEN 0 ELSE (DivRem(x, r, i + 1) * LimbBase + x[i + 1]) % r

\* long division of x by r: quotient and remainder
BigDiv(x, r) ==
    [ q |-> Numeral([i \in 1..NLimbs |-> (DivRem(x, r, i) * LimbBase + x[i]) \div r]),
      rem |-> (DivRem(x, r, 1) * LimbBase + x[1]) % r ]

BitLen(x) ==
    IF \A i \in 1..NLimbs : x[i] = 0 THEN 0
    ELSE LET t == CHOOSE i \in 1..NLimbs : x[i] # 0 /\ \A j \in (i + 1)..NLimbs : x[j] = 0
             w == CHOOSE n \in 1..LimbBits : 2^(n - 1) <= x[t] /\ x[t] < 2^n
         IN LimbBits * (t - 1) + w

Bit(x, p) == (x[p \div LimbBits + 1] \div 2^(p % LimbBits)) % 2

BigPow2(p) ==
    Numeral([i \in 1..NLimbs |-> IF i = p \div LimbBits + 1 THEN 2^(p % LimbBits) ELSE 0])

\* x with its sh lowest bits cleared
BigTrunc(x, sh) ==
    Numeral([i \in 1..NLimbs |->
               IF LimbBits * i <= sh THEN 0
               ELSE IF LimbBits * (i - 1) >= sh THEN x[i]
               ELSE LET c == 2^(sh - LimbBits * (i - 1))
                    IN (x[i] \div c) * c])

\* the exact result rounded to a double: round to nearest, ties to even;
\* sticky says that the exact result has further bits below x
RoundToDouble(x, sticky) ==
    LET sh == BitLen(x) - Significand
    IN IF sh <= 0 THEN x
       ELSE LET guard == Bit(x, sh - 1)
                low == sticky \/ \E p \in 0..(sh - 2) : Bit(x, p) = 1
                lsb == Bit(x, sh)
                trunc == BigTrunc(x, sh)
            IN IF guard = 1 /\ (low \/ lsb = 1) THEN BigAdd(trunc, BigPow2(sh)) ELSE trunc

\* a / r, a + b and a * m of doubles
FlDiv(n, r) ==
    LET d == BigDiv(BigOfInt(n), r) IN RoundToDouble(d.q, d.rem # 0)

FlAdd(a, b) == RoundToDouble(BigAdd(a, b), FALSE)

FlMul(a, m) == RoundToDouble(BigMulSmall(a, m), FALSE)

\* Math.ceil
CeilFloor(x) == IntPart(x)

Ceil(x) == IntPart(x) + (IF HasFrac(x) THEN 1 ELSE 0)

\* --------------------------------------------- audio export: merge
\* handleExportAudio and mergeAudioBuffers.  An AudioBuffer is its length in
\* frames, its sample rate, and whether it holds a non-finite sample.
ExportRate == 44100

NoBuf == [none |-> TRUE]

AudioBuffer(len, rate, nan) == [len |-> len, rate |-> rate, nan |-> nan]

AudCueKinds ==
    { NoBuf, AudioBuffer(5, 24000, FALSE), AudioBuffer(1520, 24000, FALSE),
      AudioBuffer(3, 48000, FALSE), AudioBuffer(7, 44100, FALSE),
      AudioBuffer(5, 24000, TRUE) }

AudTimelines == UNION { [1..n -> AudCueKinds] : n \in 0..MaxCues }

\* how the platform renders a source started between two frames: from the
\* first frame at or after its start time, either up to the first frame at or
\* after its end time, or for the number of frames of the resampled buffer
RenderModes == {"subsample", "frame"}

\* AudioBuffer.duration
duration(b) == FlDiv(b.len, b.rate)

\* one element of items.map(item => item.audioBuffer).filter(b => !!b)
KeepAudioFront(acc, k, b) == IF b # NoBuf THEN <<[cue |-> k, buf |-> b]>> \o acc ELSE acc

KeepAudio(acc, k, b) == IF b # NoBuf THEN Append(acc, [cue |-> k, buf |-> b]) ELSE acc

RECURSIVE buffersToMerge(_, _)
buffersToMerge(cues, k) ==
    IF k = 0 THEN <<>> ELSE KeepAudio(buffersToMerge(cues, k - 1), k, cues[k])

RECURSIVE totalDuration(_, _)
\* buffers.reduce((acc, b) => acc + b.duration, 0)
totalDuration(buffers, k) ==
    IF k = 0 THEN BigOfInt(0)
    ELSE FlAdd(totalDuration(buffers, k - 1), duration(buffers[k].buf))

\* Math.ceil(totalDuration * 44100)
totalLength(buffers) == Ceil(FlMul(totalDuration(buffers, Len(buffers)), ExportRate))

\* the frames of the buffer resampled to the export rate
ConvLen(b) == (b.len * ExportRate + b.rate - 1) \div b.rate

Min(a, b) == IF a <= b THEN a ELSE b

\* the frames of the rendered buffer that a source started at `when` fills
RenderRange(src, mode, length) ==
    LET b == src.buf
        from == Ceil(BigMulSmall(src.when, ExportRate))
        x == BigMulSmall(BigAdd(BigMulSmall(src.when, b.rate), BigOfInt(b.len)), ExportRate)
        d == BigDiv(x, b.rate)
        endAt == IntPart(d.q) + (IF HasFrac(d.q) \/ d.rem # 0 THEN 1 ELSE 0)
        to == IF mode = "subsample" THEN endAt ELSE from + ConvLen(b)
    IN [cue |-> src.cue, from |-> Min(from, length), to |-> Min(to, length)]

MergeIdle(cues, mode) ==
    [ st |-> "merge", pc |-> "idle", cues |-> cues, mode |-> mode, buffers |-> <<>>,
      length |-> 0, k |-> 0, currentOffset |-> BigOfInt(0), sources |-> <<>>,
      out |-> NoBuf, download |-> NoBlob, alerted |-> FALSE, error |-> <<>> ]

InitMerge ==
    /\ items = <<>>
    /\ broken = {}
    /\ nsess = 0
    /\ faults = FALSE
    /\ now = 0
    /\ sess = [s \in Sessions |-> Idle]
    /\ lastLoadedImage = [s \in Sessions |-> NoUrl]
    /\ cancelAt = [s \in Sessions |-> -1]
    /\ sel = SelOff
    /\ aud \in { MergeIdle(c, m) : c \in AudTimelines, m \in RenderModes }

AudUnchanged == UNCHANGED <<items, broken, nsess, faults, now, sess, lastLoadedImage, cancelAt, sel>>

\* handleExportAudio up to the loop of mergeAudioBuffers
ExportAudio ==
    /\ aud.st = "merge" /\ aud.pc = "idle"
    /\ LET bufs == buffersToMerge(aud.cues, Len(aud.cues))
       IN aud' = IF Len(bufs) = 0
                 THEN [aud EXCEPT !.pc = "none", !.alerted = TRUE]
                 ELSE [aud EXCEPT !.pc = "schedule", !.buffers = bufs, !.k = 1,
                                  !.length = totalLength(bufs)]
    /\ AudUnchanged

\* one iteration of for (const buffer of buffers)
MergeSchedule ==
    /\ aud.st = "merge" /\ aud.pc = "schedule"
    /\ aud.k <= Len(aud.buffers)
    /\ LET b == aud.buffers[aud.k]
       IN aud' = [aud EXCEPT !.sources = Append(@, [cue |-> b.cue, buf |-> b.buf,
                                                     when |-> aud.currentOffset]),
                             !.currentOffset = FlAdd(@, duration(b.buf)),
                             !.k = @ + 1]
    /\ AudUnchanged

\* offlineCtx.startRendering()
MergeRender ==
    /\ aud.st = "merge" /\ aud.pc = "schedule"
    /\ aud.k > Len(aud.buffers)
    /\ aud' = [aud EXCEPT !.pc = "rendered",
                          !.out = [length |-> aud.length, rate |-> ExportRate,
                                   ranges |-> [k \in 1..Len(aud.sources) |->
                                                 RenderRange(aud.sources[k], aud.mode, aud.length)]]]
    /\ AudUnchanged

\* bufferToWav(mergedBuffer) and the download
WavDownload ==
    /\ aud.st = "merge" /\ aud.pc = "rendered"
    /\ aud' = [aud EXCEPT !.pc = "done",
                          !.download = [kind |-> "audio/wav", frames |-> aud.out.length]]
    /\ AudUnchanged

NextMerge == ExportAudio \/ MergeSchedule \/ MergeRender \/ WavDownload

SpecMerge == InitMerge /\ [][NextMerge]_vars

Rendered == aud.st = "merge" /\ aud.pc \in {"rendered", "done"}

\* the frames of a buffer at the export rate, in 160ths of a frame (every
\* sample rate of AudCueKinds divides 44100 * 160)
Per160(rate) == (ExportRate * 160) \div rate

RECURSIVE Frames160(_, _)
Frames160(buffers, k) ==
    IF k = 0 THEN 0
    ELSE Frames160(buffers, k - 1) + buffers[k].buf.len * Per160(buffers[k].buf.rate)

\* ceil(D * 44100) for the total duration D of the buffers, in exact arithmetic
ExactLength(buffers) == (Frames160(buffers, Len(buffers)) + 159) \div 160

\* C11 as claimed: the merged buffer is at 44100 Hz and its length is
\* ceil(D * 44100) for the total duration D of the input buffers, so that its
\* duration exceeds D by less than one sample period.
C11_LengthIsCeil ==
    Rendered =>
      /\ aud.out.rate = ExportRate
      /\ aud.out.length = ExactLength(aud.buffers)
      /\ 160 * aud.out.length - Frames160(aud.buffers, Len(aud.buffers)) < 160

\* C11: the merged buffer is at 44100 Hz and its length is ceil(D * 44100) or
\* one frame more (the product of the summed durations and 44100 is computed
\* in floating point and can land just above an integer), so that its
\* duration is at least D and exceeds D by at most one sample period.
C11_LengthWithinOneSample ==
    Rendered =>
      /\ aud.out.rate = ExportRate
      /\ aud.out.length \in {ExactLength(aud.buffers), ExactLength(aud.buffers) + 1}
      /\ 160 * aud.out.length - Frames160(aud.buffers, Len(aud.buffers)) \in 0..160

\* two buffers of different sample rates, merged to exactly ceil(D * 44100)
C11_Witness ==
    /\ Rendered
    /\ Len(aud.buffers) = 2
    /\ aud.buffers[1].buf.rate # aud.buffers[2].buf.rate
    /\ Frames160(aud.buffers, 2) % 160 # 0
    /\ aud.out.length = ExactLength(aud.buffers)

\* the frames a buffer has when it is converted to the export rate alone
RECURSIVE ConvertedBefore(_, _)
ConvertedBefore(buffers, k) ==
    IF k <= 1 THEN 0 ELSE ConvertedBefore(buffers, k - 1) + ConvLen(buffers[k - 1].buf)

\* C12 as claimed: the ranges of consecutive cues in the merged buffer are
\* contiguous and strictly increasing (each starts where the one before it
\* ends, the first at 0), and the start of a cue is the sum of the converted
\* sample counts of the cues before it.
C12_OffsetsBySampleCount ==
    Rendered =>
      \A k \in 1..Len(aud.out.ranges) :
        LET r == aud.out.ranges
        IN /\ r[k].from = IF k = 1 THEN 0 ELSE r[k - 1].to
           /\ k > 1 => r[k - 1].from < r[k].from
           /\ r[k].from = ConvertedBefore(aud.buffers, k)

RECURSIVE OffsetInTimeline(_, _)
\* the accumulated duration of the cues before cue k of the timeline, a cue
\* without audio adding nothing
OffsetInTimeline(cues, k) ==
    IF k <= 1 THEN BigOfInt(0)
    ELSE IF cues[k - 1] = NoBuf THEN OffsetInTimeline(cues, k - 1)
    ELSE FlAdd(OffsetInTimeline(cues, k - 1), duration(cues[k - 1]))

\* C13: the buffers merged are exactly the buffers of the cues that have
\* audio, in timeline order, none dropped, duplicated or reordered; they are
\* scheduled and rendered in that order; a cue without audio adds no source
\* and does not shift the start of any other cue; with no audio at all
\* nothing is exported.
C13_MergesAudioCuesInOrder ==
    aud.st = "merge" /\ aud.pc # "idle" =>
      LET b == aud.buffers
          audible == { i \in 1..Len(aud.cues) : aud.cues[i] # NoBuf }
      IN /\ aud.pc # "none" =>
              /\ { b[k].cue : k \in 1..Len(b) } = audible
              /\ Len(b) = Cardinality(audible)
         /\ \A k \in 1..Len(b) :
              /\ b[k].buf = aud.cues[b[k].cue]
              /\ k > 1 => b[k - 1].cue < b[k].cue
         /\ Len(aud.sources) <= Len(b)
         /\ \A k \in 1..Len(aud.sources) :
              /\ aud.sources[k].cue = b[k].cue
              /\ aud.sources[k].buf = b[k].buf
              /\ aud.sources[k].when = OffsetInTimeline(aud.cues, b[k].cue)
         /\ Rendered =>
              /\ Len(aud.out.ranges) = Len(b)
              /\ \A k \in 1..Len(b) : aud.out.ranges[k].cue = b[k].cue
         /\ aud.pc = "none" <=> aud.alerted
         /\ aud.alerted => audible = {} /\ aud.download = NoBlob
         /\ aud.pc = "done" => aud.download # NoBlob

\* audio, a cue without audio, then audio of another buffer: both exported
C13_Witness ==
    /\ aud.st = "merge" /\ aud.pc = "done"
    /\ Len(aud.cues) = 3
    /\ aud.cues[2] = NoBuf
    /\ Len(aud.buffers) = 2
    /\ aud.cues[1] # aud.cues[3]

\* C14 as claimed: when a buffer passed to the merge holds a non-finite
\* sample the merge fails with a MalformedAudioCue error naming the cue, and
\* no merged buffer is produced or exported.
C14_MalformedRejected ==
    aud.st = "merge" /\ (\E k \in 1..Len(aud.buffers) : aud.buffers[k].buf.nan) =>
      /\ aud.out = NoBuf
      /\ aud.download = NoBlob
      /\ aud.pc \in {"rendered", "done"} => aud.error # <<>>

\* ------------------------------------------ audio export: encoding
\* bufferToWav, bufferToMp3 and their callers.  A sample s is kept as the
\* integer s * 32768 (every sample of SampleGrid is a multiple of 1/32768, so
\* that sample * 32767 and sample * 32768 are exact in floating point); a
\* byte sequence is a sequence of 0..255, byte offset p at index p + 1.
MaxFrames == 46

HeaderBytes == 44
NegScale == 32768
PosScale == 32767
Unit == 32768

\* 0, -1/32768, 0.5, 1, above 1, -0.25, just below -0.5, below -1
SampleGrid == <<0, -1, 16384, 32768, 40000, -8192, -16385, -40000>>

WavRates == {24000, 44100}

\* buffer.getChannelData(c)[k], c and k from 0
SampleOf(b, c, k) ==
    IF b.phase >= 0 THEN SampleGrid[((k + 3 * c + b.phase) % Len(SampleGrid)) + 1]
    ELSE b.data[c + 1][k + 1]

WavBuffers ==
    [ length : 0..MaxFrames, numberOfChannels : {1, 2}, sampleRate : WavRates,
      phase : 0..(Len(SampleGrid) - 1) ]

\* the bytes of a number, little-endian (DataView.setUintN(pos, data, true))
LE(data, n) == [k \in 1..n |-> (data \div 256^(k - 1)) % 256]

Put(view, pos, bytes) ==
    [p \in 1..Len(view) |->
       IF p > pos /\ p <= pos + Len(bytes) THEN bytes[p - pos] ELSE view[p]] \o <<>>

\* function setUint16(data)
setUint16(w, data) == [w EXCEPT !.view = Put(@, w.pos, LE(data, 2)), !.pos = @ + 2]

\* function setUint32(data)
setUint32(w, data) == [w EXCEPT !.view = Put(@, w.pos, LE(data, 4)), !.pos = @ + 4]

\* Math.max(-1, Math.min(1, s))
Clamp(s) == IF s > Unit THEN Unit ELSE IF s < -Unit THEN -Unit ELSE s

\* x | 0 of the quotient a / d: the fraction is dropped, towards zero
TruncDiv(a, d) == IF a >= 0 THEN a \div d ELSE -((-a) \div d)

\* (0.5 + sample < 0 ? sample * 32768 : sample * 32767) | 0
Quantize(s) ==
    IF Unit \div 2 + s < 0 THEN TruncDiv(s * NegScale, Unit) ELSE TruncDiv(s * PosScale, Unit)

\* view.setInt16(44 + offset, sample, true)
setInt16(view, at, v) == Put(view, at, LE((v + 65536) % 65536, 2))

RECURSIVE WavChannels(_, _, _)
\* for (i = 0; i < numOfChan; i++) of one iteration of the while loop
WavChannels(b, w, i) ==
    IF i >= b.numberOfChannels THEN w
    ELSE LET sample == Quantize(Clamp(SampleOf(b, i, w.pos)))
         IN WavChannels(b, [w EXCEPT !.view = setInt16(@, HeaderBytes + w.offset, sample),
                                     !.offset = @ + 2,
                                     !.written = Append(@, [frame |-> w.pos, channel |-> i,
                                                            sample |-> SampleOf(b, i, w.pos),
                                                            value |-> sample])],
                        i + 1)

RECURSIVE WavLoop(_, _)
\* while (pos < buffer.length) { ...; pos++ }
WavLoop(b, w) ==
    IF w.pos < b.length
    THEN LET w1 == WavChannels(b, w, 0) IN WavLoop(b, [w1 EXCEPT !.pos = @ + 1])
    ELSE w

\* setUint32(length - pos - 4), the data chunk length
DataLengthWhole(length, pos) == length - pos

DataLength(length, pos) == length - pos - 4

\* the header of bufferToWav, written through setUint16 and setUint32
WavHeader(b, w0) ==
    LET length == Len(w0.view)
        w1 == setUint32(w0, 1179011410)
        w2 == setUint32(w1, length - 8)
        w3 == setUint32(w2, 1163280727)
        w4 == setUint32(w3, 544501094)
        w5 == setUint32(w4, 16)
        w6 == setUint16(w5, 1)
        w7 == setUint16(w6, b.numberOfChannels)
        w8 == setUint32(w7, b.sampleRate)
        w9 == setUint32(w8, b.sampleRate * 2 * b.numberOfChannels)
        w10 == setUint16(w9, b.numberOfChannels * 2)
        w11 == setUint16(w10, 16)
        w12 == setUint32(w11, 1635017060)
    IN setUint32(w12, DataLength(length, w12.pos))

\* bufferToWav: the blob and, for reference, what the loop wrote
bufferToWav(b) ==
    LET length == b.length * b.numberOfChannels * 2 + HeaderBytes
        w0 == [view |-> [p \in 1..length |-> 0] \o <<>>, pos |-> 0, offset |-> 0, written |-> <<>>]
        w == WavLoop(b, WavHeader(b, w0))
    IN [type |-> "audio/wav", bytes |-> w.view, written |-> w.written]

\* the number whose little-endian bytes are at byte offset at
U16At(bytes, at) == bytes[at + 1] + 256 * bytes[at + 2]

Int16At(bytes, at) ==
    LET u == U16At(bytes, at) IN IF u >= 32768 THEN u - 65536 ELSE u

U32At(bytes, at) == U16At(bytes, at) + 65536 * U16At(bytes, at + 2)

\* decodeAudioFile of a 16-bit PCM WAV file: the header's channel count and
\* sample rate, and the sample v / 32768 for every 16-bit value v of the data
\* chunk (resampling to the context's rate left out)
decodeAudioFile(bytes) ==
    LET channels == U16At(bytes, 22)
        frames == U32At(bytes, 40) \div (channels * 2)
    IN [ length |-> frames, numberOfChannels |-> channels, sampleRate |-> U32At(bytes, 24),
         phase |-> -1,
         data |-> [c \in 1..channels |->
                     [k \in 1..frames |->
                        Int16At(bytes, HeaderBytes + 2 * ((k - 1) * channels + (c - 1)))]] ]

\* where the try block of bufferToMp3 can throw
Mp3Faults == {"none", "import", "construct", "encode", "flush"}

CanFail(b, fault) == fault = "encode" => b.length > 0

\* bufferToMp3: the MP3 blob, or in the catch the result of bufferToWav
bufferToMp3(b, fault) ==
    IF fault = "none"
    THEN [type |-> "audio/mp3", bytes |-> <<>>, written |-> <<>>]
    ELSE bufferToWav(b)

WavIdle(b) ==
    [ st |-> "wav", pc |-> "idle", buf |-> b, wav |-> NoBlob, loaded |-> NoBuf,
      resaved |-> NoBlob, mp3 |-> NoBlob, fellBack |-> FALSE, mp3Blob |-> NoBlob,
      mp3Name |-> <<>>, zip |-> NoBlob ]

InitWav ==
    /\ items = <<>>
    /\ broken = {}
    /\ nsess = 0
    /\ faults = FALSE
    /\ now = 0
    /\ sess = [s \in Sessions |-> Idle]
    /\ lastLoadedImage = [s \in Sessions |-> NoUrl]
    /\ cancelAt = [s \in Sessions |-> -1]
    /\ sel = SelOff
    /\ aud \in { WavIdle(b) : b \in WavBuffers }

\* handleSaveProject: bufferToWav(item.audioBuffer)
SaveProject ==
    /\ aud.st = "wav" /\ aud.pc = "idle"
    /\ aud' = [aud EXCEPT !.pc = "saved", !.wav = bufferToWav(aud.buf)]
    /\ AudUnchanged

\* handleLoadProject: decodeAudioFile(b64, ctx)
LoadProject ==
    /\ aud.st = "wav" /\ aud.pc = "saved"
    /\ aud' = [aud EXCEPT !.pc = "loaded", !.loaded = decodeAudioFile(aud.wav.bytes)]
    /\ AudUnchanged

\* handleSaveProject of the loaded project
SaveAgain ==
    /\ aud.st = "wav" /\ aud.pc = "loaded"
    /\ aud' = [aud EXCEPT !.pc = "resaved", !.resaved = bufferToWav(aud.loaded)]
    /\ AudUnchanged

\* handleGenerateAll, step 3: bufferToMp3(mergedBuffer), setMp3Blob(mp3)
ConvertMp3 ==
    /\ aud.st = "wav" /\ aud.pc = "idle"
    /\ \E fault \in Mp3Faults :
         /\ CanFail(aud.buf, fault)
         /\ aud' = [aud EXCEPT !.pc = "mp3", !.mp3 = bufferToMp3(aud.buf, fault),
                               !.fellBack = fault # "none", !.mp3Blob = bufferToMp3(aud.buf, fault)]
    /\ AudUnchanged

\* handleGenerateAll, step 5, and handleDownloadMp3: the blob is packaged as
\* episode_001.mp3 (encoded once more when the handler's mp3Blob is still
\* null) and downloaded as <title>.mp3
PublishMp3 ==
    /\ aud.st = "wav" /\ aud.pc = "mp3"
    /\ \E fault \in Mp3Faults :
         /\ CanFail(aud.buf, fault)
         /\ aud' = [aud EXCEPT !.pc = "published",
                               !.mp3Name = <<"podcast", ".mp3">>,
                               !.zip = [audioFileName |-> <<"episode_001", ".mp3">>,
                                        audioBlob |-> bufferToMp3(aud.buf, fault)]]
    /\ AudUnchanged

NextWav == SaveProject \/ LoadProject \/ SaveAgain \/ ConvertMp3 \/ PublishMp3

SpecWav == InitWav /\ [][NextWav]_vars

\* ---------------------------------------------------------------------
\* audio export: encoding, properties
\* ---------------------------------------------------------------------

\* the 44 bytes of a canonical PCM header for F frames, C channels, rate R
RiffHeader(F, C, R) ==
    <<82, 73, 70, 70>> \o LE(HeaderBytes + F * C * 2 - 8, 4) \o <<87, 65, 86, 69>>
    \o <<102, 109, 116, 32>> \o LE(16, 4) \o LE(1, 2) \o LE(C, 2) \o LE(R, 4)
    \o LE(R * C * 2, 4) \o LE(C * 2, 2) \o LE(16, 2)
    \o <<100, 97, 116, 97>> \o LE(F * C * 2, 4)

\* C15: for a buffer of F frames, C channels and rate R, bufferToWav produces
\* exactly 44 + F*C*2 bytes, and the first 44 are 'RIFF', total length - 8,
\* 'WAVE', 'fmt ', 16, format tag 1, C, R, byte rate R*C*2, block align C*2,
\* bit depth 16, 'data', data length F*C*2, all little-endian
C15_WavHeader ==
    (aud.st = "wav" /\ aud.wav # NoBlob) =>
        LET b == aud.buf IN
        /\ Len(aud.wav.bytes) = HeaderBytes + b.length * b.numberOfChannels * 2
        /\ SubSeq(aud.wav.bytes, 1, HeaderBytes)
             = RiffHeader(b.length, b.numberOfChannels, b.sampleRate)

C15_Witness ==
    /\ aud.st = "wav" /\ aud.pc = "saved"
    /\ aud.buf.length = MaxFrames /\ aud.buf.numberOfChannels = 2
    /\ aud.buf.sampleRate = 44100
    /\ U32At(aud.wav.bytes, 40) = MaxFrames * 4

\* the data section of a container holds every frame of buffer b in order
HoldsEveryFrame(bytes, b) ==
    /\ Len(bytes) = HeaderBytes + b.length * b.numberOfChannels * 2
    /\ \A k \in 0..(b.length - 1) : \A c \in 0..(b.numberOfChannels - 1) :
         Int16At(bytes, HeaderBytes + 2 * (k * b.numberOfChannels + c))
           = Quantize(Clamp(SampleOf(b, c, k)))

\* C16: in the output of bufferToWav the 16-bit value at byte offset
\* 44 + 2*(k*C + c) is the quantization of sample k of channel c, for every
\* frame k and channel c, for any F including F <= 44
C16_EveryFrameInOrder ==
    (aud.st = "wav" /\ aud.wav # NoBlob) => HoldsEveryFrame(aud.wav.bytes, aud.buf)

\* Math.round(a / d) for d > 0
Round(a, d) == (2 * a + d) \div (2 * d)

\* s >= 0 ? round(s * 32767) : round(s * 32768), s in units of 1/32768
RoundedQuantize(s) ==
    IF s >= 0 THEN Round(s * PosScale, Unit) ELSE Round(s * NegScale, Unit)

\* C17: bufferToWav quantizes each sample s as round(s * 32767) when s >= 0
\* and round(s * 32768) when s < 0, after saturating s to [-1, 1], and the
\* result is within [-32768, 32767]
C17_QuantizeRounds ==
    (aud.st = "wav" /\ aud.wav # NoBlob) =>
        \A i \in 1..Len(aud.wav.written) :
            LET e == aud.wav.written[i] IN
            /\ e.value = RoundedQuantize(Clamp(e.sample))
            /\ e.value >= -32768 /\ e.value <= 32767

\* C18: a buffer encoded, decoded and encoded again gives the same bytes as
\* the first encoding
C18_RoundTrip ==
    (aud.st = "wav" /\ aud.resaved # NoBlob) => aud.resaved.bytes = aud.wav.bytes

\* C19: when the lossy encoder fails at any step, bufferToMp3 still returns
\* a lossless container of the same buffer that holds every sample of it
C19_FallbackLossless ==
    (aud.st = "wav" /\ aud.mp3 # NoBlob /\ aud.fellBack) =>
        /\ aud.mp3.type = "audio/wav"
        /\ SubSeq(aud.mp3.bytes, 1, HeaderBytes)
             = RiffHeader(aud.buf.length, aud.buf.numberOfChannels, aud.buf.sampleRate)
        /\ HoldsEveryFrame(aud.mp3.bytes, aud.buf)

\* C20: the blob's type is audio/mp3 exactly when the lossy encoding
\* succeeded, and the publish pipeline neither stores and names nor packages
\* as .mp3 a blob that is the lossless fallback
C20_ConsumerHonoursKind ==
    (aud.st = "wav" /\ aud.pc = "published") =>
        /\ (aud.mp3.type = "audio/mp3") = ~aud.fellBack
        /\ (aud.mp3.type = "audio/wav") = aud.fellBack
        /\ aud.mp3Blob.type = "audio/wav" => aud.mp3Name[2] # ".mp3"
        /\ aud.zip.audioBlob.type = "audio/wav" => aud.zip.audioFileName[2] # ".mp3"

\* ---------------------------------------------------------------------
\* audio export: lossy encoding, step by step
\* ---------------------------------------------------------------------

MaxBlocks == 2

sampleBlockSize == 1152

\* buffer lengths around the block boundaries, and the short ones
Mp3Lengths ==
    {0, 1, MaxFrames}
    \cup { k * sampleBlockSize + d : k \in 1..MaxBlocks, d \in {-1, 0, 1} }

Mp3Buffers ==
    [ length : Mp3Lengths, numberOfChannels : {1, 2}, sampleRate : WavRates,
      phase : 0..(Len(SampleGrid) - 1) ]

\* int16Samples[i] = s < 0 ? s * 0x8000 : s * 0x7FFF, stored in an Int16Array
\* (the fraction is dropped)
Mp3Quantize(s) ==
    IF s < 0 THEN TruncDiv(s * NegScale, Unit) ELSE TruncDiv(s * PosScale, Unit)

\* samples = buffer.getChannelData(0), clamped and converted
int16Samples(b) ==
    [i \in 1..b.length |-> Mp3Quantize(Clamp(SampleOf(b, 0, i - 1)))] \o <<>>

\* the mutated block end: one sample short
BlockEndShort(i, n) == Min(i + sampleBlockSize - 1, n)

\* end index of int16Samples.subarray(i, i + sampleBlockSize)
BlockEnd(i, n) == Min(i + sampleBlockSize, n)

\* the codec: it holds samples until a frame of sampleBlockSize is complete;
\* encodeBuffer returns one byte per completed frame (the frame's number),
\* flush returns one byte when samples are still held
encodeBuffer(codec, chunk) ==
    LET held == codec.held + Len(chunk)
        done == held \div sampleBlockSize
    IN [ codec |-> [codec EXCEPT !.held = held % sampleBlockSize, !.frames = @ + done],
         mp3buf |-> [j \in 1..done |-> codec.frames + j] \o <<>> ]

flush(codec) ==
    [ codec |-> [codec EXCEPT !.held = 0, !.flushed = @ + 1],
      mp3buf |-> IF codec.held > 0 THEN <<0>> ELSE <<>> ]

RECURSIVE Concat(_)
\* result.set(chunk, offset) for every chunk of mp3Data
Concat(chunks) ==
    IF chunks = <<>> THEN <<>> ELSE Head(chunks) \o Concat(Tail(chunks))

NoCodec == [none |-> TRUE]

Mp3Idle(b) ==
    [ st |-> "mp3", pc |-> "start", buf |-> b, codec |-> NoCodec, int16Samples |-> <<>>,
      i |-> 0, calls |-> <<>>, mp3Data |-> <<>>, result |-> NoBlob ]

InitMp3 ==
    /\ items = <<>>
    /\ broken = {}
    /\ nsess = 0
    /\ faults = FALSE
    /\ now = 0
    /\ sess = [s \in Sessions |-> Idle]
    /\ lastLoadedImage = [s \in Sessions |-> NoUrl]
    /\ cancelAt = [s \in Sessions |-> -1]
    /\ sel = SelOff
    /\ aud \in { Mp3Idle(b) : b \in Mp3Buffers }

\* await import('@breezystack/lamejs')
Mp3Import ==
    /\ aud.st = "mp3" /\ aud.pc = "start"
    /\ aud' = [aud EXCEPT !.pc = "imported"]
    /\ AudUnchanged

\* new Mp3Encoder(1, buffer.sampleRate, 128)
Mp3Construct ==
    /\ aud.st = "mp3" /\ aud.pc = "imported"
    /\ aud' = [aud EXCEPT !.pc = "constructed",
                          !.codec = [channels |-> 1, sampleRate |-> aud.buf.sampleRate,
                                     kbps |-> 128, held |-> 0, frames |-> 0, flushed |-> 0]]
    /\ AudUnchanged

\* the conversion loop
Mp3Convert ==
    /\ aud.st = "mp3" /\ aud.pc = "constructed"
    /\ aud' = [aud EXCEPT !.pc = "encoding", !.int16Samples = int16Samples(aud.buf), !.i = 0]
    /\ AudUnchanged

\* one pass of the block loop
Mp3EncodeBlock ==
    /\ aud.st = "mp3" /\ aud.pc = "encoding"
    /\ aud.i < Len(aud.int16Samples)
    /\ LET to == BlockEnd(aud.i, Len(aud.int16Samples))
           sampleChunk == SubSeq(aud.int16Samples, aud.i + 1, to)
           r == encodeBuffer(aud.codec, sampleChunk)
       IN aud' = [aud EXCEPT !.codec = r.codec,
                             !.calls = Append(@, [op |-> "encodeBuffer", from |-> aud.i,
                                                  to |-> to, mp3buf |-> r.mp3buf]),
                             !.mp3Data = IF Len(r.mp3buf) > 0 THEN Append(@, r.mp3buf) ELSE @,
                             !.i = aud.i + sampleBlockSize]
    /\ AudUnchanged

\* mp3encoder.flush() after the block loop
Mp3Flush ==
    /\ aud.st = "mp3" /\ aud.pc = "encoding"
    /\ aud.i >= Len(aud.int16Samples)
    /\ LET r == flush(aud.codec)
       IN aud' = [aud EXCEPT !.pc = "flushed", !.codec = r.codec,
                             !.calls = Append(@, [op |-> "flush", from |-> aud.i,
                                                  to |-> aud.i, mp3buf |-> r.mp3buf]),
                             !.mp3Data = IF Len(r.mp3buf) > 0 THEN Append(@, r.mp3buf) ELSE @]
    /\ AudUnchanged

\* the chunks combined into the blob
Mp3Combine ==
    /\ aud.st = "mp3" /\ aud.pc = "flushed"
    /\ aud' = [aud EXCEPT !.pc = "done",
                          !.result = [type |-> "audio/mp3", bytes |-> Concat(aud.mp3Data),
                                      written |-> <<>>]]
    /\ AudUnchanged

\* a throw at the import, the construction, a block or the flush: the catch
\* returns bufferToWav(buffer); injected for the short buffers
Mp3Catch ==
    /\ aud.st = "mp3"
    /\ aud.pc \in {"start", "imported", "encoding"}
    /\ aud.buf.length <= MaxFrames
    /\ aud' = [aud EXCEPT !.pc = "done", !.result = bufferToWav(aud.buf)]
    /\ AudUnchanged

NextMp3 ==
    \/ Mp3Import \/ Mp3Construct \/ Mp3Convert \/ Mp3EncodeBlock
    \/ Mp3Flush \/ Mp3Combine \/ Mp3Catch

SpecMp3 == InitMp3 /\ [][NextMp3]_vars

\* ---------------------------------------------------------------------
\* audio export: lossy encoding, properties
\* ---------------------------------------------------------------------

Converted == aud.st = "mp3" /\ aud.pc \in {"encoding", "flushed"}

\* C21: for every mono buffer the 16-bit integers fed to the codec are,
\* sample for sample, the integers the conversion of bufferToWav gives for
\* the same samples (same clamp, same sign threshold, same rounding)
C21_SameScalingAsWav ==
    (Converted /\ aud.buf.numberOfChannels = 1) =>
        \A k \in 0..(aud.buf.length - 1) :
            aud.int16Samples[k + 1] = Quantize(Clamp(SampleOf(aud.buf, 0, k)))

\* buffer b with only the samples of its second channel changed
OtherSecondChannel(b) ==
    [ length |-> b.length, numberOfChannels |-> b.numberOfChannels,
      sampleRate |-> b.sampleRate, phase |-> -1,
      data |-> << [k \in 1..b.length |-> SampleOf(b, 0, k - 1)],
                  [k \in 1..b.length |->
                      IF SampleOf(b, 1, k - 1) = 0 THEN Unit \div 2 ELSE 0] >> ]

\* C22: for a two-channel buffer both channels contribute to what the codec
\* gets: changing only the second channel changes the integer samples
C22_BothChannelsContribute ==
    (Converted /\ aud.buf.numberOfChannels = 2 /\ aud.buf.length > 0) =>
        int16Samples(OtherSecondChannel(aud.buf)) # aud.int16Samples

NBlocks(n) == (n + sampleBlockSize - 1) \div sampleBlockSize

RECURSIVE NonEmptyOutputs(_)
NonEmptyOutputs(calls) ==
    IF calls = <<>> THEN <<>>
    ELSE (IF Len(Head(calls).mp3buf) > 0 THEN <<Head(calls).mp3buf>> ELSE <<>>)
         \o NonEmptyOutputs(Tail(calls))

\* C23: the samples go to the codec in consecutive blocks of 1152 (the last
\* may be shorter), each sample in exactly one block and in order; flush is
\* called exactly once and only after the last block; the output bytes are
\* the non-empty block outputs in block order followed by the flush output
C23_BlocksThenFlush ==
    aud.st = "mp3" =>
        LET n == aud.buf.length
            calls == aud.calls
        IN /\ \A j \in 1..Len(calls) :
                IF calls[j].op = "flush"
                THEN j = NBlocks(n) + 1 /\ j = Len(calls)
                ELSE /\ j <= NBlocks(n)
                     /\ calls[j].from = (j - 1) * sampleBlockSize
                     /\ calls[j].to = Min(j * sampleBlockSize, n)
                     /\ calls[j].to > calls[j].from
           /\ aud.codec # NoCodec => aud.codec.flushed <= 1
           /\ (aud.result # NoBlob /\ aud.result.type = "audio/mp3") =>
                /\ Len(calls) = NBlocks(n) + 1
                /\ calls[Len(calls)].op = "flush"
                /\ aud.codec.flushed = 1
                /\ aud.result.bytes = Concat(NonEmptyOutputs(calls))

C23_Witness ==
    /\ aud.st = "mp3" /\ aud.pc = "done"
    /\ aud.result.type = "audio/mp3"
    /\ aud.buf.length = MaxBlocks * sampleBlockSize + 1
    /\ Len(aud.calls) = MaxBlocks + 2
    /\ aud.result.bytes = [j \in 1..MaxBlocks |-> j] \o <<0>>

\* ---------------------------------------------------------------------
\* video export: pauses, flushing, overlapping audio
\* ---------------------------------------------------------------------

\* the log entry before position p that resolved the wait of cue k
ResolvedAt(s, k) ==
    LET r == SelectSeq(Log(s), LAMBDA e : e.ev = "resolved" /\ e.cue = k)
    IN r[1].at

PauseTasks(s) == { t \in sess[s].tasks : t.kind = "pause" }

\* C24 as claimed: a 200 ms pause lies between every pair of consecutive
\* cues, whatever their kinds, and no pause follows the last cue
C24_PauseBetweenEveryPair ==
    \A s \in Sessions :
      /\ \A p \in 2..Len(Log(s)) :
           Log(s)[p].ev = "frame" =>
             Log(s)[p].at >= ResolvedAt(s, Log(s)[p].cue - 1) + PauseMs
      /\ sess[s].pc = "awaitPause" => sess[s].i < Len(items) - 1

\* C24: a 200 ms pause follows the wait of every cue that has audio, the
\* last cue included, and nothing else: while it runs exactly one pause
\* timer is armed, for the current cue, 200 ms after the wait resolved; the
\* next cue's frame step is not before its end; after a cue without audio
\* the next cue is entered with no pause.
C24_PauseAfterAudioCues ==
    \A s \in Sessions :
      LET r == sess[s]
          log == Log(s)
      IN /\ r.pc = "awaitPause" =>
              /\ HasAudio(r.i)
              /\ log[Len(log)].ev = "resolved" /\ log[Len(log)].cue = r.i
              /\ PauseTasks(s) = {Task("pause", r.i, log[Len(log)].at + PauseMs)}
         /\ r.pc # "awaitPause" => PauseTasks(s) = {}
         /\ \A p \in 2..Len(log) :
              log[p].ev = "frame" =>
                LET k == log[p].cue - 1
                    entered == ResolvedAt(s, k) + (IF HasAudio(k) THEN PauseMs ELSE 0)
                IN /\ log[p].at >= entered
                   /\ r.loadWait = 0 => log[p].at = entered
         /\ (r.pc \in {"awaitStop", "Done"} /\ ~r.sinkFailed /\ Len(items) > 0) =>
              r.stopAt = ResolvedAt(s, Len(items) - 1)
                         + (IF HasAudio(Len(items) - 1) THEN PauseMs ELSE 0)

\* a finished export of a cue without audio followed by a cue with audio:
\* no pause after the first, one after the second (the last)
C24_Witness ==
    \E s \in Sessions :
      /\ sess[s].pc = "Done"
      /\ Len(items) = 2 /\ ~HasAudio(0) /\ HasAudio(1)
      /\ sess[s].loadWait = 0
      /\ Frames(s)[2].at = ResolvedAt(s, 0)
      /\ sess[s].stopAt = ResolvedAt(s, 1) + PauseMs

\* the recorder has fired its stop event: by itself, or after recorder.stop()
\* once the queued task has run
StopDelivered(s) ==
    /\ sess[s].recState = "inactive"
    /\ \A t \in sess[s].tasks : t.kind # "recstop"
    /\ sess[s].sinkFailed \/ "stop" \notin sess[s].lost

\* C25: stop is requested once, only after the last cue's wait has resolved
\* or after a loop error; the handler that builds the result is in place
\* before the recorder's stop event is delivered, so the event is never
\* missed; the asset is built from every non-empty chunk delivered up to the
\* stop event, in delivery order
C25_FlushProtocol ==
    \A s \in Sessions :
      LET r == sess[s]
          log == Log(s)
      IN /\ (r.recState = "inactive" /\ ~r.sinkFailed) =>
              /\ r.pc \in {"awaitStop", "Done", "Failed"}
              /\ \/ r.threw
                 \/ Len(items) = 0
                 \/ /\ Len(log) > 0
                    /\ log[Len(log)].ev = "resolved"
                    /\ log[Len(log)].cue = Len(items) - 1
         /\ (StopDelivered(s) /\ r.pc # "Failed") => r.pc = "Done"
         /\ r.pc = "Done" =>
              /\ r.result = MakeBlob(r.chunks)
              /\ \A c \in 1..Len(r.chunks) : r.chunks[c].to > r.chunks[c].from

\* the sources that are sounding: started, and their playback has not ended
\* (onended is dispatched when it ends)
Sounding(s) == { t.cue : t \in { u \in sess[s].tasks : u.kind = "ended" } }

\* C27: at most one cue's audio source plays into the recording at a time:
\* while a cue's audio is playing no source of another cue is sounding, also
\* after a wait that the timer resolved
C27_OneSourceAtATime ==
    \A s \in Sessions :
      sess[s].pc = "awaitAudio" => Sounding(s) \subseteq {sess[s].i}

\* ---------------------------------------------------------------------
\* publish pipeline: handleGenerateAll of PodcastPublishSection
\* ---------------------------------------------------------------------

MaxRuns == 2
MaxEdits == 1

StepIds == {"audio", "cover", "mp3", "webm", "rss"}

Null == [none |-> TRUE]

\* updateStep: setSteps(prev => prev.map(s => s.id === id ? {...s, status} : s))
updateStep(p, id, status) == [p EXCEPT !.steps[id] = status]

\* what the handler reads from the render it was created in, and its locals
NoRun == [mp3Blob |-> Null, coverArtBase64 |-> Null, tl |-> 0, buffers |-> Null,
          merged |-> Null, cover |-> Null, mp3 |-> Null]

PubIdle(audio, key, titled) ==
    [ st |-> "pub", pc |-> "idle", runs |-> 0, tl |-> 1, audio |-> audio, key |-> key,
      titled |-> titled, mp3Blob |-> Null, webmBlob |-> Null, rssZipBlob |-> Null,
      coverArtBase64 |-> Null, isGenerating |-> FALSE,
      steps |-> [id \in StepIds |-> "none"], alerted |-> FALSE, run |-> NoRun ]

InitPublish ==
    /\ items = <<>>
    /\ broken = {}
    /\ nsess = 0
    /\ faults = FALSE
    /\ now = 0
    /\ sess = [s \in Sessions |-> Idle]
    /\ lastLoadedImage = [s \in Sessions |-> NoUrl]
    /\ cancelAt = [s \in Sessions |-> -1]
    /\ sel = SelOff
    /\ aud \in { PubIdle(a, k, t) : a \in {"all", "some", "none"}, k \in BOOLEAN, t \in BOOLEAN }

\* finally { setIsGenerating(false) }: the handler returns
GenFinally(p) == [p EXCEPT !.isGenerating = FALSE, !.pc = "idle", !.runs = @ + 1]

\* step 5 up to its first await: the packaged MP3 is the handler's mp3Blob
\* when that is not null, else a new encoding of the merged buffer
StepRss(p0) ==
    LET p == updateStep(p0, "rss", "running")
    IN IF p.run.mp3Blob # Null
       THEN [p EXCEPT !.pc = "awaitZip", !.run.mp3 = p.run.mp3Blob]
       ELSE [p EXCEPT !.pc = "awaitZipMp3"]

\* step 4 up to its first await
StepWebm(p) ==
    IF p.run.cover # Null
    THEN [updateStep(p, "webm", "running") EXCEPT !.pc = "awaitWebm"]
    ELSE StepRss(updateStep(p, "webm", "error"))

\* step 3 up to its await
StepMp3(p) == [updateStep(p, "mp3", "running") EXCEPT !.pc = "awaitMp3"]

\* step 2 up to its first await: let cover = coverArtBase64
StepCover(p0) ==
    LET p == [p0 EXCEPT !.run.cover = p0.run.coverArtBase64]
    IN IF p.run.cover = Null /\ p.key
       THEN [updateStep(p, "cover", "running") EXCEPT !.pc = "awaitCover"]
       ELSE StepMp3(updateStep(p, "cover", IF p.run.cover # Null THEN "done" ELSE "error"))

\* after step 1: the check of buffers.length and the call of mergeAudioBuffers
AfterAudio(p0) ==
    LET p == updateStep(p0, "audio", "done")
    IN IF p.run.buffers.n = 0
       THEN GenFinally(updateStep(p, "audio", "error"))
       ELSE [p EXCEPT !.pc = "awaitMerge"]

\* the user clicks Generate All
GenStart ==
    /\ aud.st = "pub" /\ aud.pc = "idle" /\ aud.runs < MaxRuns
    /\ IF ~aud.titled
       THEN aud' = [aud EXCEPT !.alerted = TRUE, !.runs = @ + 1]
       ELSE LET allAudioGenerated == aud.audio = "all"
                p == [aud EXCEPT
                        !.isGenerating = TRUE, !.mp3Blob = Null, !.webmBlob = Null,
                        !.rssZipBlob = Null, !.coverArtBase64 = Null,
                        !.steps = [id \in StepIds |->
                                     IF id = "audio" /\ allAudioGenerated THEN "done"
                                     ELSE IF id = "cover" /\ aud.coverArtBase64 # Null THEN "done"
                                     ELSE "pending"],
                        !.run = [NoRun EXCEPT !.mp3Blob = aud.mp3Blob,
                                              !.coverArtBase64 = aud.coverArtBase64,
                                              !.tl = aud.tl,
                                              !.buffers = [n |-> IF aud.audio = "none" THEN 0 ELSE 1,
                                                           of |-> aud.tl]]]
            IN aud' = IF ~allAudioGenerated
                      THEN [updateStep(p, "audio", "running") EXCEPT !.pc = "awaitAudio"]
                      ELSE AfterAudio(p)
    /\ AudUnchanged

\* onGenerateAllAudio() settles: it resolves with n buffers, or rejects
AudioGenerated ==
    /\ aud.st = "pub" /\ aud.pc = "awaitAudio"
    /\ \E out \in {"none", "some", "reject"} :
         aud' = IF out = "reject" THEN GenFinally(aud)
                ELSE AfterAudio([aud EXCEPT
                                   !.run.buffers = [n |-> IF out = "none" THEN 0 ELSE 1,
                                                    of |-> aud.tl],
                                   !.audio = IF out = "none" THEN @ ELSE "all"])
    /\ AudUnchanged

\* mergeAudioBuffers(buffers) settles
Merged ==
    /\ aud.st = "pub" /\ aud.pc = "awaitMerge"
    /\ \E ok \in BOOLEAN :
         aud' = IF ok THEN StepCover([aud EXCEPT !.run.merged = [of |-> aud.run.buffers.of]])
                ELSE GenFinally(aud)
    /\ AudUnchanged

\* the cover generation settles
CoverGenerated ==
    /\ aud.st = "pub" /\ aud.pc = "awaitCover"
    /\ \E ok \in BOOLEAN :
         aud' = IF ok
                THEN LET cover == [run |-> aud.runs + 1]
                     IN StepMp3(updateStep([aud EXCEPT !.run.cover = cover,
                                                       !.coverArtBase64 = cover],
                                           "cover", "done"))
                ELSE StepMp3(updateStep(aud, "cover", "error"))
    /\ AudUnchanged

\* the blob bufferToMp3 resolves with: MP3, or the WAV of its catch
EncodedMp3(p, ok) ==
    [type |-> IF ok THEN "audio/mp3" ELSE "audio/wav", of |-> p.run.merged.of, run |-> p.runs + 1]

\* bufferToMp3(mergedBuffer) of step 3 resolves
Mp3Converted ==
    /\ aud.st = "pub" /\ aud.pc = "awaitMp3"
    /\ \E ok \in BOOLEAN :
         aud' = StepWebm(updateStep([aud EXCEPT !.mp3Blob = EncodedMp3(aud, ok)], "mp3", "done"))
    /\ AudUnchanged

\* createWebmVideo(wavBlob, cover, duration) settles
WebmCreated ==
    /\ aud.st = "pub" /\ aud.pc = "awaitWebm"
    /\ \E ok \in BOOLEAN :
         aud' = IF ok
                THEN StepRss(updateStep([aud EXCEPT !.webmBlob = [audio |-> aud.run.merged.of,
                                                                  cover |-> aud.run.cover]],
                                        "webm", "done"))
                ELSE StepRss(updateStep(aud, "webm", "error"))
    /\ AudUnchanged

\* bufferToMp3(mergedBuffer) of step 5 resolves
ZipMp3Converted ==
    /\ aud.st = "pub" /\ aud.pc = "awaitZipMp3"
    /\ \E ok \in BOOLEAN :
         aud' = [aud EXCEPT !.pc = "awaitZip", !.run.mp3 = EncodedMp3(aud, ok)]
    /\ AudUnchanged

\* createPodcastZip settles, then the finally block
Zipped ==
    /\ aud.st = "pub" /\ aud.pc = "awaitZip"
    /\ \E ok \in BOOLEAN :
         aud' = IF ok
                THEN GenFinally(updateStep([aud EXCEPT !.rssZipBlob = [audioBlob |-> aud.run.mp3,
                                                                       cover |-> aud.run.cover,
                                                                       run |-> aud.runs + 1]],
                                           "rss", "done"))
                ELSE GenFinally(updateStep(aud, "rss", "error"))
    /\ AudUnchanged

\* the timeline is edited between two runs
EditTimeline ==
    /\ aud.st = "pub" /\ aud.pc = "idle"
    /\ aud.tl <= MaxEdits
    /\ \E a \in {"all", "some", "none"} :
         aud' = [aud EXCEPT !.tl = @ + 1, !.audio = a]
    /\ AudUnchanged

NextPublish ==
    \/ GenStart \/ AudioGenerated \/ Merged \/ CoverGenerated \/ Mp3Converted
    \/ WebmCreated \/ ZipMp3Converted \/ Zipped \/ EditTimeline

SpecPublish == InitPublish /\ [][NextPublish]_vars

\* a run of handleGenerateAll that passed the title check has returned
GenFinished == aud.st = "pub" /\ aud.pc = "idle" /\ aud.run # NoRun

\* C26: the MP3 placed in the RSS package is the encoding of the audio merged
\* in the same run, from the timeline as it is in that run, never an MP3
\* blob of an earlier run
C26_ZipFromThisRun ==
    (aud.st = "pub" /\ aud.rssZipBlob # Null) =>
        /\ aud.rssZipBlob.audioBlob.run = aud.rssZipBlob.run
        /\ aud.rssZipBlob.audioBlob.of = aud.run.tl

\* C29: when handleGenerateAll has finished, on every path, isGenerating is
\* false and no step is left in status 'running'
C29_NoStepLeftRunning ==
    GenFinished =>
        /\ ~aud.isGenerating
        /\ \A id \in StepIds : aud.steps[id] # "running"

\* C30: after a run that ends with the cover step 'done', coverArtBase64 is
\* not null and is the cover used for the WebM video and the RSS package of
\* that run
C30_CoverStateMatches ==
    (GenFinished /\ aud.steps["cover"] = "done") =>
        /\ aud.coverArtBase64 # Null
        /\ aud.webmBlob # Null => aud.webmBlob.cover = aud.coverArtBase64
        /\ aud.rssZipBlob # Null => aud.rssZipBlob.cover = aud.coverArtBase64

\* ---------------------------------------------------------------------
\* Player: play/stop toggles, audio-ended callbacks and timers
\* ---------------------------------------------------------------------

MaxItems == 2
MaxToggles == 3

\* a SPEECH item with audio, a SPEECH item without, an SFX item (timer)
PlayKinds == {"speech", "skip", "sfx"}

Scripts == UNION { [1..n -> PlayKinds] : n \in 0..MaxItems }

\* source.stop(): the source stops sounding and its ended event is queued
StopSource(sources, id) ==
    { IF x.id = id THEN [x EXCEPT !.st = "stopped"] ELSE x : x \in sources }

\* onPlayStateChange(isPlaying, currentId): the parent sets state.isPlaying;
\* a changed prop re-runs the effect
onPlayStateChange(p, playing) ==
    [p EXCEPT !.isPlaying = playing, !.effect = @ \/ (p.isPlaying # playing)]

stopAll(p) ==
    onPlayStateChange(
        [p EXCEPT !.sources = IF p.activeSourceRef # 0 THEN StopSource(@, p.activeSourceRef) ELSE @,
                  !.activeSourceRef = 0,
                  !.timers = IF p.timeoutRef # 0 THEN { t \in @ : t.id # p.timeoutRef } ELSE @,
                  !.timeoutRef = 0,
                  !.currentIdx = -1],
        FALSE)

\* playAudioBuffer: a new source, referenced by activeSourceRef, started
playAudioBuffer(p, index) ==
    [p EXCEPT !.sources = @ \cup {[id |-> p.nextId, idx |-> index, st |-> "playing"]},
              !.activeSourceRef = p.nextId,
              !.nextId = @ + 1]

\* timeoutRef.current = window.setTimeout(() => playItem(index + 1), 2000)
playTimer(p, index) ==
    [p EXCEPT !.timers = @ \cup {[id |-> p.nextId, idx |-> index]},
              !.timeoutRef = p.nextId,
              !.nextId = @ + 1]

RECURSIVE playItem(_, _)
playItem(p, index) ==
    IF index >= Len(p.script) \/ ~p.isPlayingRef THEN stopAll(p)
    ELSE LET p1 == onPlayStateChange([p EXCEPT !.currentIdx = index], TRUE)
             kind == p.script[index + 1]
         IN CASE kind = "speech" -> playAudioBuffer(p1, index)
              [] kind = "skip" -> playItem(p1, index + 1)
              [] OTHER -> playTimer(p1, index)

PlayerIdle(script) ==
    [ st |-> "player", script |-> script, isPlaying |-> FALSE, effect |-> TRUE,
      isPlayingRef |-> FALSE, currentIdx |-> -1, activeSourceRef |-> 0, timeoutRef |-> 0,
      sources |-> {}, timers |-> {}, nextId |-> 1, toggles |-> 0 ]

InitPlayer ==
    /\ items = <<>>
    /\ broken = {}
    /\ nsess = 0
    /\ faults = FALSE
    /\ now = 0
    /\ sess = [s \in Sessions |-> Idle]
    /\ lastLoadedImage = [s \in Sessions |-> NoUrl]
    /\ cancelAt = [s \in Sessions |-> -1]
    /\ sel = SelOff
    /\ aud \in { PlayerIdle(sc) : sc \in Scripts }

\* togglePlay of the App: state.isPlaying flips
TogglePlay ==
    /\ aud.st = "player" /\ aud.toggles < MaxToggles
    /\ aud' = [aud EXCEPT !.isPlaying = ~@, !.effect = TRUE, !.toggles = @ + 1]
    /\ AudUnchanged

\* the effect on [isPlaying, items]
PlayEffect ==
    /\ aud.st = "player" /\ aud.effect
    /\ LET p == [aud EXCEPT !.effect = FALSE, !.isPlayingRef = aud.isPlaying]
       IN aud' = IF ~p.isPlaying THEN stopAll(p)
                 ELSE IF p.currentIdx = -1 /\ Len(p.script) > 0 THEN playItem(p, 0)
                 ELSE p
    /\ AudUnchanged

\* source.onended, after the source played to its end or was stopped
SourceEnded ==
    /\ aud.st = "player"
    /\ \E x \in aud.sources :
         aud' = playItem([aud EXCEPT !.sources = @ \ {x}, !.activeSourceRef = 0], x.idx + 1)
    /\ AudUnchanged

\* the 2000 ms timer of an SFX item fires
TimerFired ==
    /\ aud.st = "player"
    /\ \E t \in aud.timers :
         aud' = playItem([aud EXCEPT !.timers = @ \ {t}], t.idx + 1)
    /\ AudUnchanged

NextPlayer == TogglePlay \/ PlayEffect \/ SourceEnded \/ TimerFired

SpecPlayer == InitPlayer /\ [][NextPlayer]_vars

PlayingSources == { x \in aud.sources : x.st = "playing" }

\* C28: at most one playback chain is active: never more than one started
\* source or pending advance timer; activeSourceRef refers to the source
\* that is playing; once stop has been processed nothing plays until play is
\* requested again
C28_SingleChain ==
    aud.st = "player" =>
        /\ Cardinality(PlayingSources) + Cardinality(aud.timers) <= 1
        /\ \A x \in PlayingSources : aud.activeSourceRef = x.id
        /\ PlayingSources = {} => aud.activeSourceRef = 0
        /\ (~aud.isPlaying /\ ~aud.effect) => (PlayingSources = {} /\ aud.timers = {})

====
